---- MODULE Spec2Model ----
(***************************************************************************)
(* The protected API gateway of src/gateway/index.js as a state machine.   *)
(*                                                                         *)
(* Time is the wall clock in milliseconds (Date.now()).  The clock moves   *)
(* only in the Advance actions, and never past a pending timer, so a timer *)
(* callback always runs at its due instant.                                *)
(*                                                                         *)
(* The rate limiter is express-rate-limit with its default in-memory store *)
(* as configured at gateway/index.js:21-27: one {totalHits, resetTime}     *)
(* record per client key, created on the key's first request, reset when   *)
(* Date.now() has reached resetTime, incremented on every request, and a   *)
(* request is refused when the incremented totalHits exceeds `limit`.      *)
(***************************************************************************)
EXTENDS Integers, Sequences, FiniteSets

\* ------------------------------------------------------------------ bounds
MaxTime == 60000
MaxBurst == 150
MaxLight == 2
MaxBusTime == 12000
MaxBreakerTime == 14000
MaxBreakerRequests == 3
MaxGatewayTime == 3000
MaxRequests == 2
MaxSlots == 2
MaxConns == 2
MaxPublishes == 2
MaxProcessorStarts == 2
MaxVulnTime == 10000
MaxVulnRequests == 2
MaxVulnConns == 1

\* ------------------------------------------------- configuration (source)
windowMs == 1 * 60 * 1000
limit == 100
statusCode == 429
\* the in-flight bound of the design (its configuration item max-in-flight);
\* the gateway has no such setting
maxInFlight == 1
retryDelay == 5000
timeout == 3000
errorThresholdPercentage == 50
resetTimeout == 10000
\* opossum's defaults for the rolling statistics window, not overridden by
\* circuitBreakerOptions
rollingCountTimeout == 10000
rollingCountBuckets == 10

Keys == {"k1", "k2"}
HeavyKey == "k1"
NoClient == -1

Slots == 1..MaxSlots
Routes == {"login", "orders", "users", "health", "metrics"}
Proxied == {"login", "orders", "users"}
\* the downstream service a route calls through the breaker
Target(r) == CASE r = "login" -> "auth" [] r = "orders" -> "order" [] OTHER -> "user"
\* the routes that publish an event after a downstream success
Publishes(r) == r \in {"login", "orders"}
NoChannel == 0
NoTimer == -1

VARIABLES
  now,          \* Date.now()
  hits,         \* limiter store: totalHits per client key
  resetTime,    \* limiter store: resetTime per client key (NoClient: no record)
  obsStart,     \* observer: start of the key's current rate window
  obsAdmitted,  \* observer: requests of the key admitted in that window
  obsRejected,  \* observer: requests of the key refused in that window
  admLog,       \* observer: per key, <<t, n>>: n requests admitted at instant t,
                \* for the instants t > now - windowMs
  rabbitChannel,  \* the shared channel: NoChannel (null) or its connection's id
  liveConns,      \* the bus connections this process holds open
  closeHandlers,  \* the connections carrying the 'close' listener
  connecting,     \* connectToRabbitMQ calls awaiting amqp.connect
  creating,       \* connections whose connectToRabbitMQ call awaits createChannel
  retryTimers,    \* due times of the pending setTimeout(connectToRabbitMQ)
  nextConn,       \* connections opened so far
  exited,         \* the process has ended on an uncaught exception
  brkState,       \* opossum: "closed", "open" or "halfOpen"
  pendingClose,   \* opossum: the half-open trial has not been taken yet
  resetDue,       \* opossum: due time of the resetTimeout timer, or NoTimer
  window,         \* opossum: the rolling buckets, newest first
  totalRequests,
  activeConnections,
  failedRequests,
  req,            \* the requests being served, one per slot
  last,           \* the request that completed last
  arrivals,       \* requests received so far
  failedTargets,  \* observer: targets with a failed or timed-out call so far
  okTargets,      \* observer: targets with a successful call so far
  unhandled,      \* observer: a promise rejection nobody handles has occurred
  queues,         \* the broker: the queues that exist, in order of creation
  declareErrors,  \* observer: queue declarations the broker has refused
  procNext,       \* event processor: index in QUEUES of its next declaration
  procStarts,     \* event processor: times the process has been started
  rabbitUp,       \* the broker is running (for the unprotected gateway)
  vulnMetrics,    \* unprotected gateway: its metrics object
  vreq,           \* unprotected gateway: the requests being served
  vlast,          \* unprotected gateway: the request that completed last
  vOpen,          \* unprotected gateway: the bus connections it holds open
  vCleanup,       \* unprotected gateway: pending cleanup timers, <<conn, due>>
  vNextConn,      \* unprotected gateway: connections opened so far
  calc            \* graph analysis: the run of calculateDegrees

limVars == <<hits, resetTime>>
obsVars == <<obsStart, obsAdmitted, obsRejected, admLog>>
busVars == <<rabbitChannel, liveConns, closeHandlers, connecting, creating,
             retryTimers, nextConn, exited>>
brkVars == <<brkState, pendingClose, resetDue, window>>
metVars == <<totalRequests, activeConnections, failedRequests>>
reqVars == <<req, last, arrivals, failedTargets, okTargets, unhandled>>
brokerVars == <<queues, declareErrors>>
procVars == <<procNext, procStarts>>
vulnVars == <<rabbitUp, vulnMetrics, vreq, vlast, vOpen, vCleanup, vNextConn>>
extVars == <<brokerVars, procVars, vulnVars, calc>>
vars == <<now, limVars, obsVars, busVars, brkVars, metVars, reqVars, extVars>>

\* --------------------------------------------------------------- limiter
\* MemoryStore.increment: a key without a record, or whose window has
\* elapsed, starts a new window at this request.
WindowElapsed(k) == resetTime[k] = NoClient \/ resetTime[k] <= now

RECURSIVE SumHits(_)
SumHits(S) ==
  IF S = {} THEN 0
  ELSE LET j == CHOOSE x \in S : TRUE IN hits[j] + SumHits(S \ {j})

IncrementedHits_Shared(k) == (IF WindowElapsed(k) THEN 0 ELSE SumHits(Keys)) + 1

IncrementedHits(k) == (IF WindowElapsed(k) THEN 0 ELSE hits[k]) + 1

NextResetTime_HalfWindow(k) ==
  IF WindowElapsed(k) THEN now + windowMs \div 2 ELSE resetTime[k]

NextResetTime(k) == IF WindowElapsed(k) THEN now + windowMs ELSE resetTime[k]

OverLimit_OffByOne(totalHits) == totalHits > limit + 1

\* the middleware's test after the increment
OverLimit(totalHits) == totalHits > limit

Admits(k) == ~OverLimit(IncrementedHits(k))

Blocked_Never(k) == FALSE

\* the middleware answers itself instead of calling next()
Blocked(k) == OverLimit(IncrementedHits(k))

\* The observer's own rate window: it starts at the key's first request and
\* a request arriving windowMs or more after that start opens the next one.
ObsFresh(k) == obsStart[k] = NoClient \/ now - obsStart[k] >= windowMs

LogAdd(log) ==
  IF log # <<>> /\ log[Len(log)][1] = now
    THEN [log EXCEPT ![Len(log)] = <<now, log[Len(log)][2] + 1>>]
    ELSE Append(log, <<now, 1>>)

Observe(k, admitted) ==
  /\ obsStart' = [obsStart EXCEPT ![k] = IF ObsFresh(k) THEN now ELSE @]
  /\ obsAdmitted' = [obsAdmitted EXCEPT ![k] =
        (IF ObsFresh(k) THEN 0 ELSE @) + (IF admitted THEN 1 ELSE 0)]
  /\ obsRejected' = [obsRejected EXCEPT ![k] =
        (IF ObsFresh(k) THEN 0 ELSE @) + (IF admitted THEN 0 ELSE 1)]
  /\ admLog' = [admLog EXCEPT ![k] = IF admitted THEN LogAdd(@) ELSE @]

\* one request of key k passing through app.use(limiter)
LimiterHit(k) ==
  /\ hits' = [hits EXCEPT ![k] = IncrementedHits(k)]
  /\ resetTime' = [resetTime EXCEPT ![k] = NextResetTime(k)]
  /\ Observe(k, Admits(k))

\* entries of the log that are still within windowMs of instant t
RECURSIVE Recent(_, _)
Recent(log, t) ==
  IF log = <<>> THEN <<>>
  ELSE IF t - Head(log)[1] >= windowMs THEN Recent(Tail(log), t)
  ELSE log

RECURSIVE LogSum(_)
LogSum(log) == IF log = <<>> THEN 0 ELSE Head(log)[2] + LogSum(Tail(log))

\* ------------------------------------------------------ broker queues
\* the queues the event processor consumes
QUEUES == <<"auth-events", "order-events", "heavy-events">>

\* the queue a route handler publishes to
QueueOf(route) == IF route = "orders" THEN "order-events" ELSE "auth-events"

\* the arguments of every assertQueue call in the repository
DurableQueue(name) == [name |-> name, durable |-> TRUE]

\* queue.declare of a name that exists with other options is refused
Refused(qs, q) ==
  \E i \in DOMAIN qs : qs[i].name = q.name /\ qs[i].durable # q.durable

Declare_Duplicates(qs, q) == Append(qs, q)

\* queue.declare: creates the queue unless one of that name exists
Declare(qs, q) ==
  IF \E i \in DOMAIN qs : qs[i].name = q.name THEN qs ELSE Append(qs, q)

\* channel.assertQueue(name, options) as the broker executes it
AssertQueue(q) ==
  /\ queues' = Declare(queues, q)
  /\ declareErrors' = declareErrors + (IF Refused(queues, q) THEN 1 ELSE 0)

\* one pass of the loop `for (const queue of QUEUES)` in start()
ProcessorDeclare ==
  /\ procNext <= Len(QUEUES)
  /\ AssertQueue(DurableQueue(QUEUES[procNext]))
  /\ procNext' = procNext + 1
  /\ UNCHANGED procStarts
  /\ UNCHANGED <<now, limVars, obsVars, busVars, brkVars, metVars, reqVars,
                 vulnVars, calc>>

\* the processor is started again (a new process runs start() from the top)
ProcessorStart ==
  /\ procStarts < MaxProcessorStarts
  /\ procStarts' = procStarts + 1
  /\ procNext' = 1
  /\ UNCHANGED <<now, limVars, obsVars, busVars, brkVars, metVars, reqVars,
                 brokerVars, vulnVars, calc>>

\* ------------------------------------------------------------- message bus
ScheduleRetry_Twice(timers) ==
  Append(Append(timers, now + retryDelay), now + retryDelay)

\* setTimeout(connectToRabbitMQ, 5000)
ScheduleRetry(timers) == Append(timers, now + retryDelay)

\* amqp.connect resolves: the process holds one more open connection, and
\* connectToRabbitMQ goes on to await connection.createChannel()
ConnectOk ==
  /\ connecting > 0
  /\ nextConn < MaxConns
  /\ connecting' = connecting - 1
  /\ nextConn' = nextConn + 1
  /\ liveConns' = liveConns \cup {nextConn + 1}
  /\ creating' = creating \cup {nextConn + 1}
  /\ UNCHANGED <<rabbitChannel, closeHandlers, retryTimers, exited>>
  /\ UNCHANGED <<now, limVars, obsVars, brkVars, metVars, reqVars>>
  /\ UNCHANGED extVars

\* amqp.connect rejects: the catch block schedules the next attempt
ConnectFail ==
  /\ connecting > 0
  /\ connecting' = connecting - 1
  /\ retryTimers' = ScheduleRetry(retryTimers)
  /\ UNCHANGED <<rabbitChannel, liveConns, closeHandlers, creating, nextConn,
                 exited>>
  /\ UNCHANGED <<now, limVars, obsVars, brkVars, metVars, reqVars>>
  /\ UNCHANGED extVars

\* createChannel resolves: the channel is stored and the 'close' listener is
\* attached to the connection
ChannelOk(c) ==
  /\ c \in creating
  /\ c \in liveConns
  /\ creating' = creating \ {c}
  /\ rabbitChannel' = c
  /\ closeHandlers' = closeHandlers \cup {c}
  /\ UNCHANGED <<liveConns, connecting, retryTimers, nextConn, exited>>
  /\ UNCHANGED <<now, limVars, obsVars, brkVars, metVars, reqVars>>
  /\ UNCHANGED extVars

\* createChannel rejects (the connection was lost meanwhile, or the broker
\* refused the channel): the catch block schedules the next attempt and
\* leaves the connection it had opened as it is
ChannelFail(c) ==
  /\ c \in creating
  /\ creating' = creating \ {c}
  /\ retryTimers' = ScheduleRetry(retryTimers)
  /\ UNCHANGED <<rabbitChannel, liveConns, closeHandlers, connecting, nextConn,
                 exited>>
  /\ UNCHANGED <<now, limVars, obsVars, brkVars, metVars, reqVars>>
  /\ UNCHANGED extVars

ConnClose_NoRetry(c) ==
  /\ c \in liveConns
  /\ liveConns' = liveConns \ {c}
  /\ IF c \in closeHandlers
       THEN /\ rabbitChannel' = NoChannel
            /\ closeHandlers' = closeHandlers \ {c}
       ELSE UNCHANGED <<rabbitChannel, closeHandlers>>
  /\ UNCHANGED <<connecting, creating, nextConn, exited, retryTimers>>
  /\ UNCHANGED <<now, limVars, obsVars, brkVars, metVars, reqVars>>
  /\ UNCHANGED extVars

\* a connection is lost; its 'close' listener, when it has one, clears the
\* shared channel and schedules the next attempt
ConnClose(c) ==
  /\ c \in liveConns
  /\ liveConns' = liveConns \ {c}
  /\ IF c \in closeHandlers
       THEN /\ rabbitChannel' = NoChannel
            /\ closeHandlers' = closeHandlers \ {c}
            /\ retryTimers' = ScheduleRetry(retryTimers)
       ELSE UNCHANGED <<rabbitChannel, closeHandlers, retryTimers>>
  /\ UNCHANGED <<connecting, creating, nextConn, exited>>
  /\ UNCHANGED <<now, limVars, obsVars, brkVars, metVars, reqVars>>
  /\ UNCHANGED extVars

\* a retry timer is due: connectToRabbitMQ runs again
RetryFire ==
  /\ retryTimers # <<>>
  /\ Head(retryTimers) <= now
  /\ retryTimers' = Tail(retryTimers)
  /\ connecting' = connecting + 1
  /\ UNCHANGED <<rabbitChannel, liveConns, closeHandlers, creating, nextConn,
                 exited>>
  /\ UNCHANGED <<now, limVars, obsVars, brkVars, metVars, reqVars>>
  /\ UNCHANGED extVars

\* --------------------------------------------------------- circuit breaker
\* opossum, one instance for every route (gateway/index.js:83).  Of a
\* bucket's counters only fires and failures decide anything.
EmptyBucket == [fires |-> 0, failures |-> 0]
bucketInterval == rollingCountTimeout \div rollingCountBuckets

\* the statistics snapshot timer: the oldest bucket is dropped and a new one
\* is put in front
RECURSIVE Rotate(_, _)
Rotate(w, n) ==
  IF n <= 0 THEN w
  ELSE Rotate(<<EmptyBucket>> \o SubSeq(w, 1, Len(w) - 1), n - 1)

RECURSIVE SumFires(_)
SumFires(w) == IF w = <<>> THEN 0 ELSE Head(w).fires + SumFires(Tail(w))

RECURSIVE SumFailures(_)
SumFailures(w) == IF w = <<>> THEN 0 ELSE Head(w).failures + SumFailures(Tail(w))

\* fail(): errorRate = stats.failures / stats.fires * 100, and the circuit
\* opens when errorRate > errorThresholdPercentage or it is half open
\* (a division by zero fires gives Infinity, which exceeds the threshold)
ErrorRateExceeds(w) ==
  SumFailures(w) * 100 > errorThresholdPercentage * SumFires(w)

ShouldOpen(state, w) == state = "halfOpen" \/ ErrorRateExceeds(w)

ShortCircuits_OnlyWhenOpen == brkState = "open"

\* call(): a circuit that is not closed refuses the call unless the
\* half-open trial is still to be taken
ShortCircuits == brkState # "closed" /\ ~pendingClose

\* open(): no effect on a circuit already open; otherwise the 'open' event
\* starts the reset timer
OpenCircuit ==
  IF brkState # "open"
    THEN /\ brkState' = "open"
         /\ pendingClose' = FALSE
         /\ resetDue' = now + resetTimeout
    ELSE UNCHANGED <<brkState, pendingClose, resetDue>>

\* the 'success' listener: a success while half open closes the circuit and
\* clears the reset timer
BreakerSuccess ==
  /\ IF brkState = "halfOpen"
       THEN /\ brkState' = "closed"
            /\ pendingClose' = FALSE
            /\ resetDue' = NoTimer
       ELSE UNCHANGED <<brkState, pendingClose, resetDue>>
  /\ UNCHANGED window

\* handleError -> fail(): the failure is counted, then the circuit opens
\* when the rolling statistics say so
BreakerFailure ==
  LET w == [window EXCEPT ![1].failures = @ + 1] IN
  /\ window' = w
  /\ IF ShouldOpen(brkState, w)
       THEN OpenCircuit
       ELSE UNCHANGED <<brkState, pendingClose, resetDue>>

\* the reset timer is due: _halfOpen
HalfOpenTimer ==
  /\ resetDue # NoTimer
  /\ resetDue <= now
  /\ brkState' = "halfOpen"
  /\ pendingClose' = TRUE
  /\ resetDue' = NoTimer
  /\ UNCHANGED <<window, now, limVars, obsVars, busVars, metVars, reqVars>>
  /\ UNCHANGED extVars

\* ----------------------------------------------------------------- requests
IdleReq ==
  [pc |-> "idle", key |-> "none", route |-> "none", status |-> 0,
   body |-> "none", calls |-> 0, pubs |-> 0, at |-> 0, due |-> NoTimer,
   aborted |-> FALSE, short |-> FALSE, fellBack |-> FALSE, trial |-> FALSE,
   pubCh |-> NoChannel, label |-> "none", rabbit |-> 0]

FreeSlots == {s \in Slots : req[s].pc = "idle"}

\* res.json(...) / res.status(...).send(...): what the client receives; a
\* client that has gone receives nothing
Respond(r, code, what) ==
  IF r.aborted THEN r ELSE [r EXCEPT !.status = code, !.body = what]

\* the 'finish' listener of the metrics middleware; a response whose client
\* has gone never emits 'finish'
AfterFinish(r, n) == IF r.aborted THEN n ELSE n - 1

\* GET /metrics: the fields `status` and `rabbitConnections` of its answer
Snapshot(r) ==
  IF r.route = "metrics" THEN [r EXCEPT !.label = "SECURE", !.rabbit = 1]
                         ELSE r

\* nothing more will happen for the request in slot s
Complete(s, r) ==
  /\ req' = [req EXCEPT ![s] = IdleReq]
  /\ last' = [r EXCEPT !.pc = "done"]

CallDue_Late == now + 2 * timeout

\* breaker.fire starts the timeout timer when it invokes protectedRequest
CallDue == now + timeout

RejectedBeforeMetrics_Counted ==
  /\ totalRequests' = totalRequests + 1
  /\ UNCHANGED <<activeConnections, failedRequests>>

\* app.use(limiter) is mounted before the metrics middleware: a request the
\* limiter answers never reaches the middleware
RejectedBeforeMetrics == UNCHANGED metVars

\* A request of client k for route r arrives and runs up to its first wait:
\* the limiter, then the metrics middleware, then the route handler up to
\* `await breaker.fire(...)`.
Arrive(k, r) ==
  LET new == [IdleReq EXCEPT !.key = k, !.route = r, !.at = now] IN
  \E s \in FreeSlots :
  /\ ~exited
  /\ \A t \in FreeSlots : s <= t
  /\ arrivals' = arrivals + 1
  /\ LimiterHit(k)
  /\ IF Blocked(k)
       THEN \* the limiter answers; next() is not called
            /\ Complete(s, Respond(new, statusCode, "tooMany"))
            /\ RejectedBeforeMetrics
            /\ UNCHANGED brkVars
       ELSE /\ totalRequests' = totalRequests + 1
            /\ UNCHANGED failedRequests
            /\ IF r \notin Proxied
                 THEN \* GET /health, GET /metrics
                      /\ Complete(s, Snapshot(Respond(new, 200, r)))
                      /\ activeConnections' = activeConnections
                      /\ UNCHANGED brkVars
                 ELSE \* breaker.fire: the 'fire' event is counted first
                      /\ window' = [window EXCEPT ![1].fires = @ + 1]
                      /\ IF ShortCircuits
                           THEN \* refused: the fallback's value is the result,
                                \* and the handler sends it with res.json
                                /\ Complete(s, Respond([new EXCEPT !.short = TRUE],
                                                       200, "fallback"))
                                /\ activeConnections' = activeConnections
                                /\ UNCHANGED <<brkState, pendingClose, resetDue>>
                           ELSE \* protectedRequest is invoked
                                /\ req' = [req EXCEPT ![s] =
                                     [new EXCEPT !.pc = "calling", !.calls = 1,
                                                 !.due = CallDue,
                                                 !.trial = (brkState = "halfOpen")]]
                                /\ activeConnections' = activeConnections + 1
                                /\ pendingClose' = FALSE
                                /\ UNCHANGED <<brkState, resetDue, last>>
  /\ UNCHANGED <<now, busVars, failedTargets, okTargets, unhandled>>
  /\ UNCHANGED extVars

\* the client closes its connection while the downstream call is awaited
ClientAbort(s) ==
  /\ req[s].pc = "calling"
  /\ ~req[s].aborted
  /\ req' = [req EXCEPT ![s].aborted = TRUE]
  /\ UNCHANGED <<now, limVars, obsVars, busVars, brkVars, metVars, arrivals,
                 last, failedTargets, okTargets, unhandled>>
  /\ UNCHANGED extVars

\* the downstream service answers in time with a 2xx: the handler starts
\* publishToQueue without awaiting it when the channel is there, and sends
\* the downstream data
DownstreamOk(s) ==
  LET r == req[s]
      pub == Publishes(r.route) /\ rabbitChannel # NoChannel
      sent == Respond(r, 200, "data") IN
  /\ r.pc = "calling"
  /\ BreakerSuccess
  /\ IF pub
       THEN /\ req' = [req EXCEPT ![s] =
                 [sent EXCEPT !.pc = "publishing", !.pubCh = rabbitChannel]]
            /\ UNCHANGED last
       ELSE Complete(s, sent)
  /\ activeConnections' = AfterFinish(r, activeConnections)
  /\ okTargets' = okTargets \cup {Target(r.route)}
  /\ UNCHANGED <<now, limVars, obsVars, busVars, totalRequests, failedRequests,
                 arrivals, failedTargets, unhandled>>
  /\ UNCHANGED extVars

FallBack_Publishes(s) ==
  LET r == req[s] IN
  /\ BreakerFailure
  /\ Complete(s, Respond([r EXCEPT !.fellBack = TRUE,
                                   !.pubs = IF rabbitChannel # NoChannel THEN 1 ELSE 0],
                         200, "fallback"))
  /\ activeConnections' = AfterFinish(r, activeConnections)
  /\ failedTargets' = failedTargets \cup {Target(r.route)}
  /\ UNCHANGED <<now, limVars, obsVars, busVars, totalRequests, failedRequests,
                 arrivals, okTargets, unhandled>>
  /\ UNCHANGED extVars

\* the call failed: the fallback's value is the result of breaker.fire, the
\* handler sees response.data.fallback, publishes nothing and sends it
FallBack(s) ==
  LET r == req[s] IN
  /\ BreakerFailure
  /\ Complete(s, Respond([r EXCEPT !.fellBack = TRUE], 200, "fallback"))
  /\ activeConnections' = AfterFinish(r, activeConnections)
  /\ failedTargets' = failedTargets \cup {Target(r.route)}
  /\ UNCHANGED <<now, limVars, obsVars, busVars, totalRequests, failedRequests,
                 arrivals, okTargets, unhandled>>
  /\ UNCHANGED extVars

DownstreamErr_Retries(s) ==
  /\ req[s].pc = "calling"
  /\ IF req[s].calls < 2
       THEN /\ req' = [req EXCEPT ![s].calls = @ + 1]
            /\ UNCHANGED <<now, limVars, obsVars, busVars, brkVars, metVars,
                           arrivals, last, failedTargets, okTargets, unhandled>>
            /\ UNCHANGED extVars
       ELSE FallBack(s)

\* the downstream service answers with an error, or cannot be reached
DownstreamErr(s) ==
  /\ req[s].pc = "calling"
  /\ FallBack(s)

\* the breaker's timeout timer is due before any answer
Timeout(s) ==
  /\ req[s].pc = "calling"
  /\ req[s].due <= now
  /\ FallBack(s)

\* publishToQueue(queue, message) called on its own, whatever the caller:
\* without a channel it throws at once (the promise is rejected before any
\* await); with one it awaits assertQueue on that channel
PublishToQueue_Waits(s) ==
  LET new == [IdleReq EXCEPT !.route = "publish", !.at = now] IN
  /\ ~exited
  /\ s \in FreeSlots
  /\ \A t \in FreeSlots : s <= t
  /\ arrivals' = arrivals + 1
  /\ req' = [req EXCEPT ![s] =
         [new EXCEPT !.pc = "publishing", !.pubCh = rabbitChannel]]
  /\ UNCHANGED <<last, failedTargets, okTargets, unhandled>>
  /\ UNCHANGED <<now, limVars, obsVars, busVars, brkVars, metVars>>
  /\ UNCHANGED extVars

PublishToQueue(s) ==
  LET new == [IdleReq EXCEPT !.route = "publish", !.at = now] IN
  /\ ~exited
  /\ s \in FreeSlots
  /\ \A t \in FreeSlots : s <= t
  /\ arrivals' = arrivals + 1
  /\ IF rabbitChannel = NoChannel
       THEN Complete(s, [new EXCEPT !.body = "notReady"])
       ELSE /\ req' = [req EXCEPT ![s] =
                 [new EXCEPT !.pc = "publishing", !.pubCh = rabbitChannel]]
            /\ UNCHANGED last
  /\ UNCHANGED <<failedTargets, okTargets, unhandled>>
  /\ UNCHANGED <<now, limVars, obsVars, busVars, brkVars, metVars>>
  /\ UNCHANGED extVars

\* the route handlers call publishToQueue without await and without catch:
\* a rejection of the promise they dropped is handled by nobody
Dropped(r) == r.route \in Proxied

PublishSend_ClosesChannel(s) ==
  /\ req[s].pc = "publishing"
  /\ req[s].pubCh \in liveConns
  /\ AssertQueue(DurableQueue(QueueOf(req[s].route)))
  /\ Complete(s, [req[s] EXCEPT !.pubs = @ + 1])
  /\ rabbitChannel' = NoChannel
  /\ UNCHANGED <<liveConns, closeHandlers, connecting, creating, retryTimers,
                 nextConn, exited>>
  /\ UNCHANGED <<now, limVars, obsVars, brkVars, metVars, arrivals,
                 failedTargets, okTargets, unhandled>>
  /\ UNCHANGED <<procVars, vulnVars, calc>>

\* publishToQueue after `await rabbitChannel.assertQueue(...)` resolved:
\* rabbitChannel.sendToQueue on whatever rabbitChannel is by now
PublishSend(s) ==
  /\ req[s].pc = "publishing"
  /\ req[s].pubCh \in liveConns
  /\ AssertQueue(DurableQueue(QueueOf(req[s].route)))
  /\ IF rabbitChannel = NoChannel
       THEN /\ unhandled' = (unhandled \/ Dropped(req[s]))
            /\ Complete(s, req[s])
       ELSE /\ Complete(s, [req[s] EXCEPT !.pubs = @ + 1])
            /\ UNCHANGED unhandled
  /\ UNCHANGED <<now, limVars, obsVars, busVars, brkVars, metVars, arrivals,
                 failedTargets, okTargets>>
  /\ UNCHANGED <<procVars, vulnVars, calc>>

PublishFail_Unwinds(s) ==
  /\ req[s].pc = "publishing"
  /\ req[s].pubCh \notin liveConns
  /\ unhandled' = unhandled
  /\ Complete(s, Respond(req[s], 503, "unavailable"))
  /\ UNCHANGED <<now, limVars, obsVars, busVars, brkVars, metVars, arrivals,
                 failedTargets, okTargets>>
  /\ UNCHANGED extVars

\* assertQueue rejects because the connection was lost: publishToQueue's
\* promise rejects, and the route handler did not keep it
PublishFail(s) ==
  /\ req[s].pc = "publishing"
  /\ req[s].pubCh \notin liveConns
  /\ unhandled' = (unhandled \/ Dropped(req[s]))
  /\ Complete(s, req[s])
  /\ UNCHANGED <<now, limVars, obsVars, busVars, brkVars, metVars, arrivals,
                 failedTargets, okTargets>>
  /\ UNCHANGED extVars

\* A connection is lost with an error (the socket fails, a heartbeat is
\* missed, the broker closes it for a protocol error): the connection emits
\* 'error' before 'close'.  connectToRabbitMQ attaches a 'close' listener
\* only, so the 'error' event has no listener and is thrown as an uncaught
\* exception, which ends the process: its sockets, timers and requests go
\* with it.
ConnError(c) ==
  /\ c \in liveConns
  /\ exited' = TRUE
  /\ rabbitChannel' = NoChannel
  /\ liveConns' = {}
  /\ closeHandlers' = {}
  /\ connecting' = 0
  /\ creating' = {}
  /\ retryTimers' = <<>>
  /\ req' = [s \in Slots |-> IdleReq]
  /\ UNCHANGED <<nextConn, last, arrivals, failedTargets, okTargets, unhandled>>
  /\ UNCHANGED <<now, limVars, obsVars, brkVars, metVars>>
  /\ UNCHANGED extVars

\* ------------------------------------------------- unprotected gateway
\* The gateway without limiter, breaker or shared connection: it opens a
\* bus connection for every publication and closes it cleanupDelay later.
VRoutes == {"login", "getOrders", "users", "health"}

\* the routes whose handler awaits publishToQueue
VPublishes(r) == r = "login"

\* the routes answered without any downstream call
VLocal(r) == r = "health"

cleanupDelay == 5000

VIdleReq ==
  [pc |-> "idle", route |-> "none", status |-> 0, conn |-> 0,
   outage |-> FALSE, aborted |-> FALSE]

VFreeSlots == {s \in Slots : vreq[s].pc = "idle"}

Counted_PeakStale(m) ==
  [m EXCEPT !.totalRequests = @ + 1, !.activeConnections = @ + 1]

\* the metrics middleware as a request passes it
Counted(m) ==
  [m EXCEPT !.totalRequests = @ + 1,
            !.activeConnections = @ + 1,
            !.peakConnections =
               IF m.activeConnections + 1 > @ THEN m.activeConnections + 1
                                              ELSE @]

\* the 'finish' listener; a response whose client has gone emits no 'finish'
Finished(m, r) ==
  IF r.aborted THEN m ELSE [m EXCEPT !.activeConnections = @ - 1]

\* the catch block of a route handler
Failed(m) == [m EXCEPT !.failedRequests = @ + 1]

\* the handler of the request in slot s answers with `code`
VRespond(s, code, m) ==
  /\ vlast' = [vreq[s] EXCEPT !.pc = "done",
                              !.status = IF vreq[s].aborted THEN 0 ELSE code]
  /\ vreq' = [vreq EXCEPT ![s] = VIdleReq]
  /\ vulnMetrics' = Finished(m, vreq[s])

\* the handler of the request in slot s ends in its catch block
VCatch(s) == VRespond(s, 500, Failed(vulnMetrics))

VFrame == UNCHANGED <<now, limVars, obsVars, busVars, brkVars, metVars,
                      reqVars, procVars, calc>>

\* a request for route r arrives and runs up to its first wait
VArrive(r) ==
  \E s \in VFreeSlots :
  /\ \A t \in VFreeSlots : s <= t
  /\ IF VLocal(r)
       THEN /\ vlast' = [VIdleReq EXCEPT !.pc = "done", !.route = r,
                                         !.status = 200, !.outage = ~rabbitUp]
            /\ vulnMetrics' = Finished(Counted(vulnMetrics), VIdleReq)
            /\ UNCHANGED vreq
       ELSE /\ vreq' = [vreq EXCEPT ![s] =
                 [VIdleReq EXCEPT !.pc = "calling", !.route = r,
                                  !.outage = ~rabbitUp]]
            /\ vulnMetrics' = Counted(vulnMetrics)
            /\ UNCHANGED vlast
  /\ UNCHANGED <<rabbitUp, vOpen, vCleanup, vNextConn, brokerVars>>
  /\ VFrame

\* the client gives up while the handler awaits the downstream service
VClientAbort(s) ==
  /\ vreq[s].pc = "calling"
  /\ ~vreq[s].aborted
  /\ vreq' = [vreq EXCEPT ![s].aborted = TRUE]
  /\ UNCHANGED <<rabbitUp, vulnMetrics, vlast, vOpen, vCleanup, vNextConn,
                 brokerVars>>
  /\ VFrame

\* the downstream service answered: the handler answers, or goes on to
\* `await publishToQueue(...)`, which awaits amqp.connect
VDownstreamOk(s) ==
  /\ vreq[s].pc = "calling"
  /\ IF VPublishes(vreq[s].route)
       THEN /\ vreq' = [vreq EXCEPT ![s].pc = "connecting"]
            /\ UNCHANGED <<vulnMetrics, vlast>>
       ELSE VRespond(s, 200, vulnMetrics)
  /\ UNCHANGED <<rabbitUp, vOpen, vCleanup, vNextConn, brokerVars>>
  /\ VFrame

\* the downstream call failed
VDownstreamErr(s) ==
  /\ vreq[s].pc = "calling"
  /\ VCatch(s)
  /\ UNCHANGED <<rabbitUp, vOpen, vCleanup, vNextConn, brokerVars>>
  /\ VFrame

\* amqp.connect resolved: the connection is counted, createChannel awaited
VConnectOk(s) ==
  /\ vreq[s].pc = "connecting"
  /\ rabbitUp
  /\ vNextConn < MaxVulnConns
  /\ vNextConn' = vNextConn + 1
  /\ vOpen' = vOpen \cup {vNextConn + 1}
  /\ vulnMetrics' = [vulnMetrics EXCEPT !.rabbitConnections = @ + 1]
  /\ vreq' = [vreq EXCEPT ![s].pc = "creating", ![s].conn = vNextConn + 1]
  /\ UNCHANGED <<rabbitUp, vlast, vCleanup, brokerVars>>
  /\ VFrame

\* amqp.connect rejected: publishToQueue throws into the handler's catch
VConnectFail(s) ==
  /\ vreq[s].pc = "connecting"
  /\ ~rabbitUp
  /\ VCatch(s)
  /\ UNCHANGED <<rabbitUp, vOpen, vCleanup, vNextConn, brokerVars>>
  /\ VFrame

\* createChannel resolved: assertQueue awaited
VChannelOk(s) ==
  /\ vreq[s].pc = "creating"
  /\ vreq[s].conn \in vOpen
  /\ vreq' = [vreq EXCEPT ![s].pc = "asserting"]
  /\ UNCHANGED <<rabbitUp, vulnMetrics, vlast, vOpen, vCleanup, vNextConn,
                 brokerVars>>
  /\ VFrame

\* createChannel or assertQueue rejected because the connection has gone:
\* publishToQueue throws before it has set its cleanup timer
VPublishFail(s) ==
  /\ vreq[s].pc \in {"creating", "asserting"}
  /\ vreq[s].conn \notin vOpen
  /\ VCatch(s)
  /\ UNCHANGED <<rabbitUp, vOpen, vCleanup, vNextConn, brokerVars>>
  /\ VFrame

CleanupTimer_Never(timers, c) == timers

\* setTimeout(async () => {...}, 5000) for connection c
CleanupTimer(timers, c) == Append(timers, <<c, now + cleanupDelay>>)

\* assertQueue resolved: the message is sent, the cleanup timer set, and
\* the handler answers
VPublished(s) ==
  /\ vreq[s].pc = "asserting"
  /\ vreq[s].conn \in vOpen
  /\ AssertQueue(DurableQueue(QueueOf(vreq[s].route)))
  /\ vCleanup' = CleanupTimer(vCleanup, vreq[s].conn)
  /\ VRespond(s, 200, vulnMetrics)
  /\ UNCHANGED <<rabbitUp, vOpen, vNextConn>>
  /\ VFrame

\* a cleanup timer is due: channel.close(), connection.close(), and the
\* connection is counted out; if channel.close() throws because the
\* connection has gone, the catch block swallows it and nothing is counted
VCleanupFire ==
  /\ vCleanup # <<>>
  /\ Head(vCleanup)[2] <= now
  /\ vCleanup' = Tail(vCleanup)
  /\ IF Head(vCleanup)[1] \in vOpen
       THEN /\ vOpen' = vOpen \ {Head(vCleanup)[1]}
            /\ vulnMetrics' = [vulnMetrics EXCEPT !.rabbitConnections = @ - 1]
       ELSE UNCHANGED <<vOpen, vulnMetrics>>
  /\ UNCHANGED <<rabbitUp, vreq, vlast, vNextConn, brokerVars>>
  /\ VFrame

\* the broker is stopped: it closes every connection
RabbitStop ==
  /\ rabbitUp
  /\ rabbitUp' = FALSE
  /\ vOpen' = {}
  /\ UNCHANGED <<vulnMetrics, vreq, vlast, vCleanup, vNextConn, brokerVars>>
  /\ VFrame

\* the broker is started again
RabbitStart ==
  /\ ~rabbitUp
  /\ rabbitUp' = TRUE
  /\ vreq' = [s \in Slots |-> [vreq[s] EXCEPT !.outage = FALSE]]
  /\ UNCHANGED <<vulnMetrics, vlast, vOpen, vCleanup, vNextConn, brokerVars>>
  /\ VFrame

SetMin(S) == CHOOSE x \in S : \A y \in S : x <= y

\* ---------------------------------------------------------- graph analysis
architecture ==
  [nodes |-> <<"client1", "client2", "client3", "attacker", "gateway", "auth",
               "order", "user", "rabbitmq", "worker1">>,
   edges |-> << [from |-> "client1", to |-> "gateway"],
                [from |-> "client2", to |-> "gateway"],
                [from |-> "client3", to |-> "gateway"],
                [from |-> "attacker", to |-> "gateway"],
                [from |-> "gateway", to |-> "auth"],
                [from |-> "gateway", to |-> "order"],
                [from |-> "gateway", to |-> "user"],
                [from |-> "gateway", to |-> "rabbitmq"],
                [from |-> "auth", to |-> "rabbitmq"],
                [from |-> "order", to |-> "rabbitmq"],
                [from |-> "user", to |-> "rabbitmq"],
                [from |-> "rabbitmq", to |-> "worker1"] >>]

NodeIds == {architecture.nodes[i] : i \in DOMAIN architecture.nodes}

\* no run of calculateDegrees: for the specifications of the gateways
CalcIdle == [pc |-> "idle", graph |-> {}, rest |-> {}, degrees |-> <<>>]

\* the body of `for (const edge of graph.edges)`
AddEdge(d, e) ==
  LET d1 == IF e.from \in DOMAIN d THEN [d EXCEPT ![e.from].outDegree = @ + 1]
                                   ELSE d
  IN IF e.to \in DOMAIN d1 THEN [d1 EXCEPT ![e.to].inDegree = @ + 1] ELSE d1

GraphFrame == UNCHANGED <<now, limVars, obsVars, busVars, brkVars, metVars,
                          reqVars, brokerVars, procVars, vulnVars>>

\* calculateDegrees, first loop: every node starts with degrees 0
CalcNodes ==
  /\ calc.pc = "nodes"
  /\ calc' = [calc EXCEPT !.pc = "edges",
                !.degrees = [n \in NodeIds |->
                   [inDegree |-> 0, outDegree |-> 0, totalDegree |-> 0]]]
  /\ GraphFrame

\* calculateDegrees, second loop: the next edge of graph.edges
CalcEdge ==
  /\ calc.pc = "edges"
  /\ calc.rest # {}
  /\ calc' = [calc EXCEPT
                !.rest = @ \ {SetMin(calc.rest)},
                !.degrees = AddEdge(@, architecture.edges[SetMin(calc.rest)])]
  /\ GraphFrame

\* calculateDegrees, third loop, and return
CalcTotals ==
  /\ calc.pc = "edges"
  /\ calc.rest = {}
  /\ calc' = [calc EXCEPT !.pc = "done",
                !.degrees = [n \in DOMAIN calc.degrees |->
                   [calc.degrees[n] EXCEPT !.totalDegree =
                      calc.degrees[n].inDegree + calc.degrees[n].outDegree]]]
  /\ GraphFrame

\* -------------------------------------------------------------------- time
PendingDues ==
  {req[s].due : s \in {t \in Slots : req[t].pc = "calling"}}
    \cup (IF resetDue = NoTimer THEN {} ELSE {resetDue})
    \cup {retryTimers[i] : i \in DOMAIN retryTimers}
    \cup {vCleanup[i][2] : i \in DOMAIN vCleanup}

\* the clock moves on by `step`, or to the next timer that is due before that
NextInstant(step) == SetMin({now + step} \cup PendingDues)

Advance(step, maxTime) ==
  /\ NextInstant(step) > now
  /\ NextInstant(step) <= maxTime
  /\ now' = NextInstant(step)
  /\ window' = Rotate(window, now' \div bucketInterval - now \div bucketInterval)
  /\ admLog' = [k \in Keys |-> Recent(admLog[k], now')]
  /\ UNCHANGED <<limVars, obsStart, obsAdmitted, obsRejected, busVars,
                 brkState, pendingClose, resetDue, metVars, reqVars>>
  /\ UNCHANGED extVars

\* ------------------------------------------------------------------- start
\* no queue exists yet and the event processor has not been started
NoBroker ==
  /\ queues = <<>>
  /\ declareErrors = 0
  /\ procNext = Len(QUEUES) + 1
  /\ procStarts = 0

\* the unprotected gateway has just been started, the broker is running
NoVuln ==
  /\ rabbitUp = TRUE
  /\ vulnMetrics = [totalRequests |-> 0, activeConnections |-> 0,
                    peakConnections |-> 0, failedRequests |-> 0,
                    rabbitConnections |-> 0]
  /\ vreq = [s \in Slots |-> VIdleReq]
  /\ vlast = VIdleReq
  /\ vOpen = {}
  /\ vCleanup = <<>>
  /\ vNextConn = 0

\* the module has been loaded: connectToRabbitMQ() is awaiting amqp.connect
FreshGateway ==
  /\ now = 0
  /\ hits = [k \in Keys |-> 0]
  /\ resetTime = [k \in Keys |-> NoClient]
  /\ obsStart = [k \in Keys |-> NoClient]
  /\ obsAdmitted = [k \in Keys |-> 0]
  /\ obsRejected = [k \in Keys |-> 0]
  /\ admLog = [k \in Keys |-> <<>>]
  /\ rabbitChannel = NoChannel
  /\ liveConns = {}
  /\ closeHandlers = {}
  /\ connecting = 1
  /\ creating = {}
  /\ retryTimers = <<>>
  /\ nextConn = 0
  /\ exited = FALSE
  /\ brkState = "closed"
  /\ pendingClose = FALSE
  /\ resetDue = NoTimer
  /\ window = [i \in 1..rollingCountBuckets |-> EmptyBucket]
  /\ totalRequests = 0
  /\ activeConnections = 0
  /\ failedRequests = 0
  /\ req = [s \in Slots |-> IdleReq]
  /\ last = IdleReq
  /\ arrivals = 0
  /\ failedTargets = {}
  /\ okTargets = {}
  /\ unhandled = FALSE

InitFresh ==
  /\ FreshGateway
  /\ NoBroker
  /\ NoVuln
  /\ calc = CalcIdle

\* ------------------------------------------------- limiter on its own
LimiterStep == windowMs \div 2

LimiterRequest(k) ==
  /\ IncrementedHits(k) <= (IF k = HeavyKey THEN MaxBurst ELSE MaxLight)
  /\ LimiterHit(k)
  /\ UNCHANGED <<now, busVars, brkVars, metVars, reqVars>>
  /\ UNCHANGED extVars

LimiterAdvance ==
  /\ now + LimiterStep <= MaxTime
  /\ now' = now + LimiterStep
  /\ admLog' = [k \in Keys |-> Recent(admLog[k], now')]
  /\ UNCHANGED <<limVars, obsStart, obsAdmitted, obsRejected>>
  /\ UNCHANGED <<busVars, brkVars, metVars, reqVars>>
  /\ UNCHANGED extVars

NextLimiter ==
  \/ \E k \in Keys : LimiterRequest(k)
  \/ LimiterAdvance

SpecLimiter == InitFresh /\ [][NextLimiter]_vars

\* ---------------------------------------------------- the bus on its own
NextBus ==
  \/ ConnectOk
  \/ ConnectFail
  \/ \E c \in 1..MaxConns : ChannelOk(c)
  \/ \E c \in 1..MaxConns : ChannelFail(c)
  \/ \E c \in 1..MaxConns : ConnClose(c)
  \/ \E c \in 1..MaxConns : ConnError(c)
  \/ RetryFire
  \/ \E s \in Slots : PublishToQueue(s) /\ arrivals < MaxPublishes
  \/ \E s \in Slots : PublishSend(s)
  \/ \E s \in Slots : PublishFail(s)
  \/ Advance(bucketInterval, MaxBusTime)

SpecBus == InitFresh /\ [][NextBus]_vars

\* ------------------------------------------- the bus, dropped and reachable
\* The established connection is dropped (the broker closes it, 'close' is
\* emitted) while publishToQueue is being called; the broker accepts every
\* connection attempt.  Timers fire when due, and a pending broker answer
\* arrives.
BusAdvance == Advance(bucketInterval, MaxBusTime)

NextBusLive ==
  \/ ConnectOk
  \/ \E c \in 1..MaxConns : ChannelOk(c)
  \/ \E c \in 1..MaxConns : ConnClose(c) /\ c = rabbitChannel
  \/ RetryFire
  \/ \E s \in Slots : PublishToQueue(s) /\ arrivals < MaxPublishes
  \/ \E s \in Slots : PublishSend(s)
  \/ \E s \in Slots : PublishFail(s)
  \/ BusAdvance

SpecBusLive ==
  /\ InitFresh
  /\ [][NextBusLive]_vars
  /\ WF_vars(ConnectOk)
  /\ WF_vars(\E c \in 1..MaxConns : ChannelOk(c))
  /\ WF_vars(RetryFire)
  /\ WF_vars(BusAdvance)

\* ------------------------------------------- the breaker behind the routes
\* The bus stays as it is at start (no channel yet), and one client calls
\* two of the proxied routes over more than one reset period.
BreakerRoutes == {"login", "users"}

NextBreaker ==
  \/ \E r \in BreakerRoutes : Arrive(HeavyKey, r) /\ arrivals < MaxBreakerRequests
  \/ \E s \in Slots : DownstreamOk(s)
  \/ \E s \in Slots : DownstreamErr(s)
  \/ \E s \in Slots : Timeout(s)
  \/ HalfOpenTimer
  \/ Advance(timeout, MaxBreakerTime)

SpecBreaker == InitFresh /\ [][NextBreaker]_vars

\* ------------------------------------------------------------- the gateway
\* The gateway over one breaker timeout, taken up after the start-up
\* connection has succeeded (amqp.connect and createChannel resolved at
\* time 0) and HeavyKey has made limit - 1 liveness probes (GET /health),
\* each of which passed the limiter and the metrics middleware and was
\* answered at once.  No retry timer falls due within that time.
WarmGateway ==
  /\ now = 0
  /\ hits = [k \in Keys |-> IF k = HeavyKey THEN limit - 1 ELSE 0]
  /\ resetTime = [k \in Keys |-> IF k = HeavyKey THEN windowMs ELSE NoClient]
  /\ obsStart = [k \in Keys |-> IF k = HeavyKey THEN 0 ELSE NoClient]
  /\ obsAdmitted = [k \in Keys |-> IF k = HeavyKey THEN limit - 1 ELSE 0]
  /\ obsRejected = [k \in Keys |-> 0]
  /\ admLog = [k \in Keys |-> IF k = HeavyKey THEN <<<<0, limit - 1>>>> ELSE <<>>]
  /\ rabbitChannel = 1
  /\ liveConns = {1}
  /\ closeHandlers = {1}
  /\ connecting = 0
  /\ creating = {}
  /\ retryTimers = <<>>
  /\ nextConn = 1
  /\ exited = FALSE
  /\ brkState = "closed"
  /\ pendingClose = FALSE
  /\ resetDue = NoTimer
  /\ window = [i \in 1..rollingCountBuckets |-> EmptyBucket]
  /\ totalRequests = limit - 1
  /\ activeConnections = 0
  /\ failedRequests = 0
  /\ req = [s \in Slots |-> IdleReq]
  /\ last = [IdleReq EXCEPT !.pc = "done", !.key = HeavyKey, !.route = "health",
                            !.status = 200, !.body = "health"]
  /\ arrivals = limit - 1
  /\ failedTargets = {}
  /\ okTargets = {}
  /\ unhandled = FALSE
  /\ NoVuln
  /\ calc = CalcIdle

\* ... and the event processor has started and declared its queues
InitWarm ==
  /\ WarmGateway
  /\ queues = [i \in DOMAIN QUEUES |-> DurableQueue(QUEUES[i])]
  /\ declareErrors = 0
  /\ procNext = Len(QUEUES) + 1
  /\ procStarts = 1

GatewayRoutes == {"login", "users", "health"}

Init == InitWarm

Next ==
  \/ \E k \in Keys, r \in GatewayRoutes :
       Arrive(k, r) /\ arrivals < limit - 1 + MaxRequests
  \/ \E s \in Slots : ClientAbort(s)
  \/ \E s \in Slots : DownstreamOk(s)
  \/ \E s \in Slots : DownstreamErr(s)
  \/ \E s \in Slots : Timeout(s)
  \/ \E s \in Slots : PublishSend(s)
  \/ \E s \in Slots : PublishFail(s)
  \/ \E c \in 1..MaxConns : ConnClose(c)
  \/ Advance(timeout, MaxGatewayTime)

Spec == Init /\ [][Next]_vars

\* ------------------------------------------------- declarations of queues
\* The gateway is warm as above, no queue exists and the event processor
\* has not been started.  The downstream services answer in time.
InitQueues == WarmGateway /\ NoBroker

PublishingRoutes == {"login", "orders"}

NextQueues ==
  \/ ProcessorStart
  \/ ProcessorDeclare
  \/ \E k \in Keys, r \in PublishingRoutes :
       Arrive(k, r) /\ arrivals < limit - 1 + MaxPublishes
  \/ \E s \in Slots : DownstreamOk(s)
  \/ \E s \in Slots : PublishSend(s)

SpecQueues == InitQueues /\ [][NextQueues]_vars

\* --------------------------------------------------- the metrics endpoint
NextMetrics ==
  \/ ConnectOk
  \/ ConnectFail
  \/ \E c \in 1..MaxConns : ChannelOk(c)
  \/ \E c \in 1..MaxConns : ConnClose(c)
  \/ RetryFire
  \/ \E k \in Keys : Arrive(k, "metrics") /\ arrivals < MaxRequests
  \/ Advance(retryDelay, MaxBusTime)

SpecMetrics == InitFresh /\ [][NextMetrics]_vars

\* ------------------------------------------------ the unprotected gateway
NextVuln ==
  \/ \E r \in VRoutes :
       VArrive(r) /\ vulnMetrics.totalRequests < MaxVulnRequests
  \/ \E s \in Slots : VClientAbort(s)
  \/ \E s \in Slots : VDownstreamOk(s)
  \/ \E s \in Slots : VDownstreamErr(s)
  \/ \E s \in Slots : VConnectOk(s)
  \/ \E s \in Slots : VConnectFail(s)
  \/ \E s \in Slots : VChannelOk(s)
  \/ \E s \in Slots : VPublishFail(s)
  \/ \E s \in Slots : VPublished(s)
  \/ VCleanupFire
  \/ RabbitStop
  \/ RabbitStart
  \/ Advance(cleanupDelay, MaxVulnTime)

SpecVuln == InitFresh /\ [][NextVuln]_vars

\* ------------------------------------------------------ the graph analysis
\* calculateDegrees is run on the architecture and on every graph that has
\* the architecture's nodes and some of its edges, in their order
InitGraph ==
  /\ FreshGateway
  /\ NoBroker
  /\ NoVuln
  /\ \E E \in SUBSET DOMAIN architecture.edges :
       calc = [pc |-> "nodes", graph |-> E, rest |-> E, degrees |-> <<>>]

NextGraph ==
  \/ CalcNodes
  \/ CalcEdge
  \/ CalcTotals

SpecGraph == InitGraph /\ [][NextGraph]_vars

\* ------------------------------------------------------------- claims
\* C1: for every client key, the requests admitted within one rate window
\* never exceed limit; once limit or more requests of a key have arrived in
\* a window, exactly limit of them were admitted and all the others refused
\* (150 requests: 100 admitted, 50 refused).
C1_WindowAdmission ==
  \A k \in Keys :
    /\ obsAdmitted[k] <= limit
    /\ obsAdmitted[k] + obsRejected[k] >= limit =>
         /\ obsAdmitted[k] = limit
         /\ obsRejected[k] = obsAdmitted[k] + obsRejected[k] - limit

C1_Witness ==
  /\ obsAdmitted[HeavyKey] = 100
  /\ obsRejected[HeavyKey] = 50

\* requests of key k admitted in the interval (now - windowMs, now]
AdmittedInLastWindowMs(k) == LogSum(Recent(admLog[k], now))

\* C9 as stated: in every interval of length windowMs, aligned with the
\* limiter's windows or not, at most limit requests of a key are admitted.
C9_SlidingLimit == \A k \in Keys : AdmittedInLastWindowMs(k) <= limit

\* C9 as amended: an interval of length windowMs overlaps at most two of the
\* key's fixed windows and cannot hold the whole of both, so at most
\* 2 * limit - 1 requests of a key are admitted in it.
C9_SlidingTwoWindows ==
  \A k \in Keys : AdmittedInLastWindowMs(k) <= 2 * limit - 1

C9_Witness ==
  /\ AdmittedInLastWindowMs(HeavyKey) = 2 * limit - 1
  /\ obsAdmitted[HeavyKey] = limit

\* requests admitted and not yet answered
InFlight == {s \in Slots : req[s].pc = "calling"}

\* C2: the process never holds more than one open bus connection.
C2_OneLiveConnection == Cardinality(liveConns) <= 1

\* C3: while every downstream call so far has failed, a rolling failure
\* ratio that has reached errorThresholdPercentage means the breaker has
\* left CLOSED.
C3_OpensAtThreshold ==
  (/\ okTargets = {}
   /\ SumFires(window) > 0
   /\ SumFailures(window) * 100 >= errorThresholdPercentage * SumFires(window))
  => brkState # "closed"

\* C4: while the breaker is half open at most one call, the trial, is with
\* the downstream service, and none before the trial is taken; a call that
\* arrives while the trial is outstanding gets the fallback without a
\* downstream invocation; the trial's success closes the circuit and its
\* failure opens it again with a new reset timer.
C4_TrialIsAlone ==
  brkState = "halfOpen" =>
    /\ Cardinality(InFlight) = (IF pendingClose THEN 0 ELSE 1)
    /\ \A s \in InFlight : req[s].trial

C4_DuringTrial ==
  (brkState = "halfOpen" /\ ~pendingClose /\ arrivals' = arrivals + 1) =>
    /\ last'.short /\ last'.calls = 0 /\ last'.at = now
    /\ req' = req
    /\ brkState' = "halfOpen"

C4_TrialOutcome ==
  \A s \in Slots :
    (req[s].pc = "calling" /\ req[s].trial /\ req'[s].pc # "calling") =>
      IF last'.fellBack
        THEN brkState' = "open" /\ resetDue' = now + resetTimeout
        ELSE brkState' = "closed" /\ resetDue' = NoTimer

C4_HalfOpenTrial ==
  [](C4_TrialIsAlone) /\ [][C4_DuringTrial /\ C4_TrialOutcome]_vars

C4_Witness ==
  /\ brkState = "halfOpen"
  /\ \E s \in InFlight : req[s].trial /\ last.short /\ last.at > req[s].at

\* C5: a call is short-circuited only when a call to its own target has
\* failed or timed out before.
C5_PerTargetBreaker ==
  (last.pc = "done" /\ last.short) => Target(last.route) \in failedTargets

\* C6: a proxied request whose result is the fallback (short-circuited, or
\* the downstream call failed or timed out) is answered with 503 and
\* {error: "Service Unavailable"}.
C6_FallbackIs503 ==
  (last.pc = "done" /\ (last.short \/ last.fellBack) /\ ~last.aborted)
    => last.status = 503 /\ last.body = "unavailable"

\* C7: whenever no admitted request is awaiting its response,
\* activeConnections is 0.
C7_CounterReturnsToZero == InFlight = {} => activeConnections = 0

\* C8: the admitted requests not yet completed never number more than
\* maxInFlight.
C8_InFlightBound == Cardinality(InFlight) <= maxInFlight

\* C10: a request the limiter refuses is answered in the same step with 429
\* and the "Too many requests" body, without a downstream call, without a
\* publication, and without touching the breaker, the metrics or the bus.
C10_Rejecting(k) == obsRejected'[k] > obsRejected[k]

C10_RejectionStep ==
  \A k \in Keys :
    C10_Rejecting(k) =>
      /\ last'.key = k /\ last'.pc = "done"
      /\ last'.status = 429 /\ last'.body = "tooMany"
      /\ last'.calls = 0 /\ last'.pubs = 0
      /\ req' = req
      /\ UNCHANGED <<brkVars, metVars, busVars>>

C10_RejectedIs429 == [][C10_RejectionStep]_vars

C10_Witness ==
  /\ last.status = 429
  /\ last.key = HeavyKey
  /\ obsRejected[HeavyKey] = 1
  /\ obsAdmitted[HeavyKey] = limit

\* C11: GET /health is answered with the liveness response whatever the state
\* of the caller's rate window and of the breaker; it is never answered 429.
C11_HealthBypasses ==
  (last.pc = "done" /\ last.route = "health")
    => last.status = 200 /\ last.body = "health"

\* connectToRabbitMQ calls that are running, and retry timers that are pending
ConnectionAttempts == connecting + Cardinality(creating) + Len(retryTimers)

\* C12: at every instant at most one connection attempt is active, a running
\* connectToRabbitMQ call and a pending retry timer counted together.
C12_OneConnectionAttempt == ConnectionAttempts <= 1

\* an attempt is pending after a failed one left its connection open, and a
\* publication is under way on a later connection
C12_Witness ==
  /\ retryTimers # <<>>
  /\ nextConn = MaxConns
  /\ liveConns # {}
  /\ arrivals > 0

\* C13: publishToQueue called without a channel fails in the same step with
\* the not-ready error: nothing is left pending for the call (no wait, no
\* buffered event), nothing is sent, and the bus state is as it was (no
\* connection is opened).
C13_NotReadyCall == rabbitChannel = NoChannel /\ arrivals' = arrivals + 1

C13_FailFastStep ==
  C13_NotReadyCall =>
    /\ last'.pc = "done" /\ last'.route = "publish"
    /\ last'.body = "notReady" /\ last'.pubs = 0
    /\ req' = req
    /\ UNCHANGED busVars

C13_FailsFast == [][C13_FailFastStep]_vars

C13_Witness ==
  /\ last.body = "notReady"
  /\ rabbitChannel = NoChannel
  /\ retryTimers # <<>>
  /\ \A s \in Slots : req[s].pc = "idle"

\* C14: after the established connection is dropped, (a) a publishToQueue
\* call made while the channel is absent fails as not ready and sends
\* nothing; (b) the drop schedules exactly one reconnect, due retryDelay after
\* the drop, and connectToRabbitMQ runs again at that instant, not before;
\* (c) no publishToQueue step opens or closes a connection, and a publication
\* whose connection is still there when the broker has answered is sent, on
\* the shared channel; (d) the channel is eventually there again.
C14_OutageCall ==
  (rabbitChannel = NoChannel /\ arrivals' = arrivals + 1) =>
    last'.body = "notReady" /\ last'.pubs = 0

C14_Drop ==
  (rabbitChannel # NoChannel /\ rabbitChannel' = NoChannel) =>
    retryTimers' = <<now + retryDelay>> /\ connecting' = 0 /\ creating' = {}

C14_Reconnect ==
  connecting' > connecting =>
    retryTimers # <<>> /\ now = Head(retryTimers) /\ retryTimers' = Tail(retryTimers)

C14_SharedConnection ==
  (arrivals' # arrivals \/ req' # req) =>
    /\ UNCHANGED <<nextConn, liveConns, connecting, creating>>
    /\ \A s \in Slots :
         (req[s].pc = "publishing" /\ req'[s].pc = "idle"
            /\ req[s].pubCh \in liveConns) =>
           last'.pubs = 1 /\ rabbitChannel \in liveConns

\* the channel is absent and the bounds leave room for the reconnect
C14_Down ==
  /\ rabbitChannel = NoChannel
  /\ nextConn < MaxConns
  /\ now + retryDelay <= MaxBusTime

C15_ReconnectNeverStops == liveConns = {} => ConnectionAttempts > 0

\* C16: when the publication started for a request ends without an event
\* sent, the request's client has the downstream data with status 200, as it
\* had before the publication ended.
C16_PublicationFails(s) ==
  /\ req[s].pc = "publishing" /\ req'[s].pc = "idle"
  /\ Dropped(req[s]) /\ ~req[s].aborted
  /\ last'.pubs = 0

C16_PublishFailureStep ==
  \A s \in Slots :
    C16_PublicationFails(s) =>
      /\ req[s].status = 200 /\ req[s].body = "data"
      /\ last'.status = 200 /\ last'.body = "data"
      /\ last'.calls = 1 /\ ~last'.fellBack

C16_ResponseKept == [][C16_PublishFailureStep]_vars

C16_Witness ==
  /\ last.pc = "done" /\ last.route = "login"
  /\ last.pubCh # NoChannel /\ last.pubs = 0
  /\ last.status = 200 /\ last.body = "data"
  /\ unhandled

\* C17: no promise rejection goes unhandled.
C17_NoUnhandledRejection == ~unhandled

\* C18: a request sends at most one event, and only a request of a
\* publishing route whose downstream call was made and whose result is not
\* the fallback sends one.
C18_Events(r) ==
  /\ r.pubs <= 1
  /\ r.pubs = 1 =>
       /\ Publishes(r.route)
       /\ r.calls = 1 /\ ~r.short /\ ~r.fellBack
       /\ ~r.aborted => r.status = 200 /\ r.body = "data"

C18_AtMostOnceNoFallback ==
  /\ C18_Events(last)
  /\ \A s \in Slots : req[s].pubs = 0
  /\ (last.short \/ last.fellBack) => last.pubs = 0 /\ last.pubCh = NoChannel

C18_Witness ==
  /\ last.pubs = 1 /\ last.route = "login"
  /\ failedTargets # {}

\* C19: no request is still waiting for its downstream call more than
\* `timeout` after the call started: by then it has been answered, with the
\* downstream result or with the fallback.
C19_AnsweredWithinTimeout ==
  /\ \A s \in InFlight : now - req[s].at <= timeout
  /\ (last.pc = "done" /\ last.calls = 1 /\ last.fellBack) =>
        /\ last.due - last.at = timeout
        /\ ~last.aborted => last.status = 200 /\ last.body = "fallback"

\* the downstream service has not answered and the breaker's timer has
\* answered for it, `timeout` after a call that started after time 0
C19_Witness ==
  /\ last.pc = "done" /\ last.fellBack /\ ~last.aborted
  /\ last.at > 0
  /\ now = last.at + timeout
  /\ InFlight = {}

\* C20: a request of one client leaves every other client's limiter record
\* as it was, and with it the decision the other client's next request gets
\* at that instant; the decision for a client is a function of the client's
\* own record and the clock.
C20_RequestOf(j) ==
  <<obsStart[j], obsAdmitted[j], obsRejected[j]>>'
    # <<obsStart[j], obsAdmitted[j], obsRejected[j]>>

C20_OthersUntouched ==
  \A j \in Keys : \A k \in Keys \ {j} :
    C20_RequestOf(j) =>
      /\ hits'[k] = hits[k] /\ resetTime'[k] = resetTime[k]
      /\ Admits(k)' = Admits(k)
      /\ ~C20_RequestOf(k)

C20_KeyedByClient == [][C20_OthersUntouched]_vars

\* one client is being refused while another, in the same minute, has been
\* admitted each time
C20_Witness ==
  \E k \in Keys \ {HeavyKey} :
    /\ obsRejected[HeavyKey] > 0 /\ obsAdmitted[HeavyKey] = limit
    /\ obsAdmitted[k] = MaxLight /\ obsRejected[k] = 0
    /\ obsStart[k] > obsStart[HeavyKey]


\* the queues of name n that exist
QueuesNamed(qs, n) == {i \in DOMAIN qs : qs[i].name = n}

\* a declaration of the name n completes in this step: a pass of the event
\* processor's loop, or assertQueue in a publication of the gateway
C21_Declares(n) ==
  \/ procNext <= Len(QUEUES) /\ procNext' = procNext + 1 /\ QUEUES[procNext] = n
  \/ \E s \in Slots : /\ req[s].pc = "publishing"
                      /\ req'[s].pc = "idle"
                      /\ QueueOf(req[s].route) = n

C21_DeclarationStep ==
  \A n \in {QUEUES[i] : i \in DOMAIN QUEUES} :
    C21_Declares(n) => Cardinality(QueuesNamed(queues', n)) = 1

\* C21: declaring a queue is idempotent: however often and in whatever order
\* the gateway's publications and the event processor's start-up declare a
\* name, after each declaration exactly one queue of that name exists, no
\* name ever has two queues, and the broker refuses no declaration.
C21_DeclareIdempotent ==
  /\ [](declareErrors = 0)
  /\ [](\A i, j \in DOMAIN queues : queues[i].name = queues[j].name => i = j)
  /\ [][C21_DeclarationStep]_vars

\* the processor has declared its queues twice over and the gateway has
\* published to one of them
C21_Witness ==
  /\ procStarts = 2
  /\ procNext = Len(QUEUES) + 1
  /\ last.pubs = 1
  /\ Len(queues) = Len(QUEUES)


\* C22: the status label in the answer of the protected gateway's
\* GET /metrics is one of HEALTHY, DEGRADED and OVERLOADED (the label the
\* thresholds on the in-flight count select).
C22_StatusLabel ==
  (last.route = "metrics" /\ last.status = 200)
    => last.label \in {"HEALTHY", "DEGRADED", "OVERLOADED"}

\* C23: the rabbitConnections field in the answer of the protected
\* gateway's GET /metrics is the number of bus connections that are live
\* when the answer is made.
C23_ReportsLiveConnections ==
  [][(arrivals' = arrivals + 1 /\ last'.route = "metrics"
        /\ last'.status = 200)
       => last'.rabbit = Cardinality(liveConns)]_vars


\* the request answered last was served from arrival to answer while the
\* broker was stopped, and the broker is still stopped
C24_ServedInOutage == vlast.pc = "done" /\ vlast.outage /\ ~rabbitUp

\* C24: on the unprotected gateway, a request served while the broker is
\* stopped fails even when its route publishes nothing (GET /api/users,
\* GET /api/orders, GET /health).
C24_OutageFailsAll ==
  (C24_ServedInOutage /\ ~VPublishes(vlast.route) /\ ~vlast.aborted)
    => vlast.status >= 500

\* no request is being served and no cleanup timer is pending
C28_Quiet == (\A s \in Slots : vreq[s].pc = "idle") /\ vCleanup = <<>>

\* C28: on the unprotected gateway, once traffic has stopped and every
\* cleanup timer has run, rabbitConnections is back at 0 and no connection
\* opened by publishToQueue is still open.
C28_ConnectionsClosed ==
  C28_Quiet => (vulnMetrics.rabbitConnections = 0 /\ vOpen = {})

\* C30: on the unprotected gateway, 0 <= activeConnections <=
\* peakConnections <= totalRequests in every state, and peakConnections
\* never decreases.
C30_PeakBounds ==
  /\ [](/\ 0 <= vulnMetrics.activeConnections
        /\ vulnMetrics.activeConnections <= vulnMetrics.peakConnections
        /\ vulnMetrics.peakConnections <= vulnMetrics.totalRequests)
  /\ [][vulnMetrics'.peakConnections >= vulnMetrics.peakConnections]_vars

\* two requests were in flight together and one of them has been answered
C30_Witness ==
  /\ vulnMetrics.peakConnections = 2
  /\ vulnMetrics.activeConnections = 1
  /\ vlast.pc = "done"


\* calculateDegrees has returned for the architecture itself
C25_Analysed == calc.pc = "done" /\ calc.graph = DOMAIN architecture.edges

\* C25: for the architecture, calculateDegrees gives the gateway in-degree
\* 4, out-degree 3 and total 7, RabbitMQ in-degree 3, out-degree 1 and
\* total 4, and no node a higher total degree than the gateway.
C25_DocumentedDegrees ==
  C25_Analysed =>
    /\ calc.degrees["gateway"] =
         [inDegree |-> 4, outDegree |-> 3, totalDegree |-> 7]
    /\ calc.degrees["rabbitmq"] =
         [inDegree |-> 3, outDegree |-> 1, totalDegree |-> 4]
    /\ \A n \in NodeIds :
         calc.degrees[n].totalDegree <= calc.degrees["gateway"].totalDegree


\* a step of a route handler or of publishToQueue
C26_RequestStep == req' # req \/ last' # last \/ arrivals' # arrivals

\* C26: no step of a route handler or of publishToQueue writes
\* rabbitChannel, whether the publication succeeds or fails; only the
\* connect logic and its 'close' listener do.
C26_ChannelOwnedByConnect ==
  [][C26_RequestStep => rabbitChannel' = rabbitChannel]_vars

\* a publication has succeeded and the channel it used is still the shared one
C26_Witness ==
  /\ last.pubs = 1
  /\ last.pubCh = rabbitChannel
  /\ rabbitChannel # NoChannel

\* the requests the gateway knows of
C27_Requests == {last} \cup {req[s] : s \in Slots}

\* C27: a request causes at most one invocation of the downstream service,
\* and none when the limiter rejected it or the breaker short-circuited it.
C27_NoRetry ==
  \A r \in C27_Requests :
    /\ r.calls <= 1
    /\ (r.status = statusCode \/ r.short) => r.calls = 0

\* a downstream call has failed and its request was answered with the
\* fallback after that one call
C27_Witness ==
  /\ last.fellBack
  /\ last.calls = 1
  /\ last.status = 200

\* requests the limiter has admitted since the start
C29_Admitted == obsAdmitted["k1"] + obsAdmitted["k2"]

\* C29: the metrics count only requests that passed the limiter:
\* totalRequests is the number of admitted requests, and a step in which
\* the limiter rejects a request changes none of totalRequests,
\* activeConnections and failedRequests.
C29_RejectedNotCounted ==
  /\ [](totalRequests = C29_Admitted)
  /\ [][(\E k \in Keys : C10_Rejecting(k)) =>
          /\ totalRequests' = totalRequests
          /\ activeConnections' = activeConnections
          /\ failedRequests' = failedRequests]_vars

\* one more request has arrived than the metrics have counted: the limiter
\* rejected it
C29_Witness ==
  /\ last.status = statusCode
  /\ totalRequests = limit
  /\ arrivals = limit + 1

====
